---- MODULE Spec2Model ----
(***************************************************************************)
(* Feature-flag API (packages/api-feature-flags): the feature_flags table, *)
(* FeatureFlagService (one SQL statement per method) and                   *)
(* FeatureFlagController (one handler per route), run by concurrent        *)
(* requests.  A request advances one step per store round trip: the store  *)
(* executes each statement atomically (row-level locking, READ COMMITTED), *)
(* and the handler's continuation after the await is part of that step.    *)
(***************************************************************************)
EXTENDS Integers, Sequences, FiniteSets, TLC

\* ---------------------------------------------------------------- bounds
NumClients == 2      \* requests that can be in flight at the same time
MaxRequests == 2     \* requests issued in one behaviour

Clients == 1..NumClients

\* ------------------------------------------------------------ JS values
\* A JavaScript value of a request body or a response: its type tag t and
\* its source text s.
Undefined == [t |-> "undefined", s |-> ""]
Null == [t |-> "null", s |-> ""]
JsBool(b) == [t |-> "boolean", s |-> IF b THEN "true" ELSE "false"]
JsStr(x) == [t |-> "string", s |-> x]
JsObj(x) == [t |-> "object", s |-> x]

\* The keys requests address: one of the schema's sample flags and a fresh key.
Keys == {"a-number-flag", "beta-ui"}

\* req.body.flag_key of a POST: a key, or absent.
BodyKeys == {JsStr(k) : k \in Keys} \cup {Undefined}

\* req.body.description / enabled / flag_data: absent, null, or a value.
DescriptionVals == {Undefined, Null, JsStr("d")}
EnabledVals == {Undefined, Null, JsBool(TRUE), JsBool(FALSE)}
FlagDataVals == {Undefined, Null, JsObj("{\"a\":1}"), JsBool(FALSE)}

\* req.query.search: absent, empty, or a term: one that is in a description
\* but for its case, one in a key but for its case, one in no column, and _.
SearchVals == {Undefined, JsStr(""), JsStr("test"), JsStr("UI"), JsStr("zz"), JsStr("_")}

DtoBodies == [description : DescriptionVals, enabled : EnabledVals, flag_data : FlagDataVals]

\* Bodies that carry fields of the row as well: flag_key, id and created_at,
\* with a description and alone.
ForeignBodies ==
    {[description |-> d, enabled |-> Undefined, flag_data |-> Undefined,
      flag_key |-> JsStr("beta-ui"), id |-> 99, created_at |-> 9] : d \in {Undefined, JsStr("d")}}

Bodies == DtoBodies \cup ForeignBodies

NoBody == [description |-> Undefined, enabled |-> Undefined, flag_data |-> Undefined]

\* JavaScript truthiness, a || b and a ?? b.
Falsy(v) ==
    \/ v.t \in {"undefined", "null"}
    \/ v.t = "boolean" /\ v.s = "false"
    \/ v.t = "number" /\ v.s = "0"
    \/ v.t = "string" /\ v.s = ""

JsOr(a, b) == IF Falsy(a) THEN b ELSE a

JsNullish(a, b) == IF a.t \in {"undefined", "null"} THEN b ELSE a

\* JSON.stringify of a defined value: the JSON text.
JSONStringify(v) ==
    CASE v.t = "null" -> "null"
      [] v.t = "string" -> "\"" \o v.s \o "\""
      [] OTHER -> v.s

\* ------------------------------------------------------------ the store
\* jsonb input: the JSON text of a parameter becomes the column's stored
\* jsonb value, which prints with a space after each ':' of an object.
JsonbIn(text) ==
    CASE text = "{\"a\":1}" -> "{\"a\": 1}"
      [] text = "{\"value\":42}" -> "{\"value\": 42}"
      [] OTHER -> text

\* node-postgres parses a jsonb column with JSON.parse.
JSONParse(text) ==
    CASE text = "null" -> Null
      [] text = "true" -> JsBool(TRUE)
      [] text = "false" -> JsBool(FALSE)
      [] text = "{}" -> JsObj("{}")
      [] text = "{\"a\": 1}" -> JsObj("{\"a\":1}")
      [] text = "{\"value\": 42}" -> JsObj("{\"value\":42}")

\* A parameter or a column: NULL, or the text of its value.
SqlNull == [t |-> "NULL", s |-> ""]
SqlText(x) == [t |-> "text", s |-> x]

\* A TEXT column read back by node-postgres.
TextOut(c) == IF c.t = "NULL" THEN Null ELSE JsStr(c.s)

\* The row of the result set as the API returns it (RETURNING id, flag_key,
\* description, enabled, flag_data, created_at, updated_at).
RowOut(r) ==
    [id |-> r.id, flag_key |-> r.flag_key, description |-> TextOut(r.description),
     enabled |-> JsBool(r.enabled), flag_data |-> JSONParse(r.flag_data),
     created_at |-> r.created_at, updated_at |-> r.updated_at]

\* The schema's sample rows with a key of Keys (ids follow the INSERT order).
SampleRows ==
    {[id |-> 2, flag_key |-> "a-number-flag", description |-> SqlText("Test a number flag"),
      enabled |-> FALSE, flag_data |-> JsonbIn("{\"value\":42}"),
      created_at |-> 0, updated_at |-> 0]}

\* The SERIAL sequence after the four sample inserts.
FirstFreeId == 5

\* ------------------------------------------------------- SQL statements
\* Each statement is evaluated atomically against the table s and yields the
\* table afterwards, the result rows and the SQLSTATE of a failure ("" if none);
\* n counts the statements run (pool.query), one here.
StmtResult(s, rows, err) == [store |-> s, rows |-> rows, err |-> err, n |-> 1]

RowsOf(s, k) == {r \in s : r.flag_key = k}

\* The keys in the order of the column's collation.
KeyOrder == <<"a-number-flag", "beta-ui">>

Rank(k) == CHOOSE i \in 1..Len(KeyOrder) : KeyOrder[i] = k

\* (variant: ORDER BY flag_key DESC)
RECURSIVE OrderByFlagKeyDesc(_)
OrderByFlagKeyDesc(rows) ==
    IF rows = {} THEN <<>>
    ELSE LET first == CHOOSE r \in rows : \A x \in rows : Rank(r.flag_key) >= Rank(x.flag_key)
         IN  <<first>> \o OrderByFlagKeyDesc(rows \ {first})

\* ORDER BY flag_key: the rows as a sequence, ascending.
RECURSIVE OrderByFlagKey(_)
OrderByFlagKey(rows) ==
    IF rows = {} THEN <<>>
    ELSE LET first == CHOOSE r \in rows : \A x \in rows : Rank(r.flag_key) <= Rank(x.flag_key)
         IN  <<first>> \o OrderByFlagKey(rows \ {first})

\* SELECT ... FROM feature_flags ORDER BY flag_key
SelectAll(s) == StmtResult(s, OrderByFlagKey(s), "")

\* SELECT ... FROM feature_flags WHERE enabled = true ORDER BY flag_key
SelectEnabled(s) == StmtResult(s, OrderByFlagKey({r \in s : r.enabled}), "")

\* The characters of the strings of the model.
Chars(x) ==
    CASE x = "" -> <<>>
      [] x = "d" -> <<"d">>
      [] x = "_" -> <<"_">>
      [] x = "zz" -> <<"z", "z">>
      [] x = "UI" -> <<"U", "I">>
      [] x = "test" -> <<"t", "e", "s", "t">>
      [] x = "beta-ui" -> <<"b", "e", "t", "a", "-", "u", "i">>
      [] x = "a-number-flag" ->
            <<"a", "-", "n", "u", "m", "b", "e", "r", "-", "f", "l", "a", "g">>
      [] x = "Test a number flag" ->
            <<"T", "e", "s", "t", " ", "a", " ", "n", "u", "m", "b", "e", "r", " ",
              "f", "l", "a", "g">>

\* Case folding of ILIKE, for the capitals those strings have.
Lower(c) ==
    CASE c = "T" -> "t"
      [] c = "U" -> "u"
      [] c = "I" -> "i"
      [] OTHER -> c

\* text ILIKE pattern, both as characters: % matches any run of characters,
\* _ any one character, \ takes the next character literally, any other
\* character matches itself in either case.
RECURSIVE ILike(_, _)
ILike(text, pattern) ==
    IF pattern = <<>> THEN text = <<>>
    ELSE IF Head(pattern) = "%"
         THEN ILike(text, Tail(pattern)) \/ (text # <<>> /\ ILike(Tail(text), pattern))
    ELSE IF text = <<>> THEN FALSE
    ELSE IF Head(pattern) = "_" THEN ILike(Tail(text), Tail(pattern))
    ELSE IF Head(pattern) = "\\" /\ Len(pattern) >= 2
         THEN Head(text) = pattern[2] /\ ILike(Tail(text), Tail(Tail(pattern)))
    ELSE Lower(Head(text)) = Lower(Head(pattern)) /\ ILike(Tail(text), Tail(pattern))

\* column ILIKE $1, which is not true of a NULL column.
ColumnILike(c, pattern) == c.t # "NULL" /\ ILike(Chars(c.s), pattern)

\* SELECT ... FROM feature_flags WHERE flag_key ILIKE $1 OR description ILIKE $1
\* ORDER BY flag_key
SelectILike(s, pattern) ==
    StmtResult(s, OrderByFlagKey({r \in s : \/ ColumnILike(SqlText(r.flag_key), pattern)
                                            \/ ColumnILike(r.description, pattern)}), "")

\* SELECT ... FROM feature_flags WHERE flag_key = $1
SelectByKey(s, k) == StmtResult(s, RowsOf(s, k), "")

\* (variant: the id is one more than the largest id in the table)
InsertStmtNextToLargest(s, id, ts, k, description, enabled, flag_data) ==
    LET ids == {r.id : r \in s} \cup {0}
        row == [id |-> 1 + CHOOSE i \in ids : \A j \in ids : j <= i,
                flag_key |-> k, description |-> description,
                enabled |-> (enabled.s = "true"), flag_data |-> JsonbIn(flag_data.s),
                created_at |-> ts, updated_at |-> ts]
    IN  IF enabled.t = "NULL" \/ flag_data.t = "NULL" THEN StmtResult(s, {}, "23502")
        ELSE IF RowsOf(s, k) # {} THEN StmtResult(s, {}, "23505")
        ELSE StmtResult(s \cup {row}, {row}, "")

\* (variant: INSERT ... ON CONFLICT (flag_key) DO UPDATE, an overwrite)
InsertStmtUpsert(s, id, ts, k, description, enabled, flag_data) ==
    LET row == [id |-> id, flag_key |-> k, description |-> description,
                enabled |-> (enabled.s = "true"), flag_data |-> JsonbIn(flag_data.s),
                created_at |-> ts, updated_at |-> ts]
    IN  IF enabled.t = "NULL" \/ flag_data.t = "NULL" THEN StmtResult(s, {}, "23502")
        ELSE StmtResult((s \ RowsOf(s, k)) \cup {row}, {row}, "")

\* INSERT INTO feature_flags (flag_key, description, enabled, flag_data)
\* VALUES ($1, $2, $3, $4) RETURNING ...: id from the sequence, both timestamps
\* DEFAULT CURRENT_TIMESTAMP, rejected by UNIQUE (flag_key) with 23505 and by
\* NOT NULL with 23502.
InsertStmt(s, id, ts, k, description, enabled, flag_data) ==
    LET row == [id |-> id, flag_key |-> k, description |-> description,
                enabled |-> (enabled.s = "true"), flag_data |-> JsonbIn(flag_data.s),
                created_at |-> ts, updated_at |-> ts]
    IN  IF enabled.t = "NULL" \/ flag_data.t = "NULL" THEN StmtResult(s, {}, "23502")
        ELSE IF RowsOf(s, k) # {} THEN StmtResult(s, {}, "23505")
        ELSE StmtResult(s \cup {row}, {row}, "")

\* (variant: the trigger stamps created_at as well)
update_both_timestamps(new, ts) == [new EXCEPT !.updated_at = ts, !.created_at = ts]

\* BEFORE UPDATE ... FOR EACH ROW: NEW.updated_at = CURRENT_TIMESTAMP.
update_updated_at_column(new, ts) == [new EXCEPT !.updated_at = ts]

\* (variant: the row is replaced, deleted and inserted again with the new values)
UpdateStmtReplacesRow(s, ts, k, sets) ==
    LET cols == DOMAIN sets
        new(r) == [r EXCEPT
            !.description = IF "description" \in cols THEN sets["description"] ELSE @,
            !.enabled = IF "enabled" \in cols THEN sets["enabled"].s = "true" ELSE @,
            !.flag_data = IF "flag_data" \in cols THEN JsonbIn(sets["flag_data"].s) ELSE @,
            !.created_at = ts, !.updated_at = ts]
        rows == {new(r) : r \in RowsOf(s, k)}
    IN  IF RowsOf(s, k) = {} THEN StmtResult(s, {}, "")
        ELSE IF \E c \in cols \cap {"enabled", "flag_data"} : sets[c].t = "NULL"
             THEN StmtResult(s, {}, "23502")
        ELSE StmtResult((s \ RowsOf(s, k)) \cup rows, rows, "")

\* (variant: NOT NULL is enforced on the parameters, matching row or not)
UpdateStmtChecksParameters(s, ts, k, sets) ==
    LET cols == DOMAIN sets
        new(r) == [r EXCEPT
            !.description = IF "description" \in cols THEN sets["description"] ELSE @,
            !.enabled = IF "enabled" \in cols THEN sets["enabled"].s = "true" ELSE @,
            !.flag_data = IF "flag_data" \in cols THEN JsonbIn(sets["flag_data"].s) ELSE @]
        rows == {update_updated_at_column(new(r), ts) : r \in RowsOf(s, k)}
    IN  IF \E c \in cols \cap {"enabled", "flag_data"} : sets[c].t = "NULL"
        THEN StmtResult(s, {}, "23502")
        ELSE StmtResult((s \ RowsOf(s, k)) \cup rows, rows, "")

\* (variant: the columns are assigned one by one and the assignments made
\* before the rejected one stay)
UpdateStmtKeepsAssigned(s, ts, k, sets) ==
    LET cols == DOMAIN sets
        new(r) == [r EXCEPT
            !.description = IF "description" \in cols THEN sets["description"] ELSE @,
            !.enabled = IF "enabled" \in cols /\ sets["enabled"].t # "NULL"
                        THEN sets["enabled"].s = "true" ELSE @,
            !.flag_data = IF "flag_data" \in cols /\ sets["flag_data"].t # "NULL"
                          THEN JsonbIn(sets["flag_data"].s) ELSE @]
        rows == {update_updated_at_column(new(r), ts) : r \in RowsOf(s, k)}
    IN  IF RowsOf(s, k) = {} THEN StmtResult(s, {}, "")
        ELSE IF \E c \in cols \cap {"enabled", "flag_data"} : sets[c].t = "NULL"
             THEN StmtResult((s \ RowsOf(s, k)) \cup rows, {}, "23502")
        ELSE StmtResult((s \ RowsOf(s, k)) \cup rows, rows, "")

\* UPDATE feature_flags SET <sets> WHERE flag_key = $n RETURNING ...: sets maps
\* each assigned column to its parameter.  No row matching is not a failure;
\* a NULL for enabled or flag_data violates NOT NULL (23502).
UpdateStmt(s, ts, k, sets) ==
    LET cols == DOMAIN sets
        new(r) == [r EXCEPT
            !.description = IF "description" \in cols THEN sets["description"] ELSE @,
            !.enabled = IF "enabled" \in cols THEN sets["enabled"].s = "true" ELSE @,
            !.flag_data = IF "flag_data" \in cols THEN JsonbIn(sets["flag_data"].s) ELSE @]
        rows == {update_updated_at_column(new(r), ts) : r \in RowsOf(s, k)}
    IN  IF RowsOf(s, k) = {} THEN StmtResult(s, {}, "")
        ELSE IF \E c \in cols \cap {"enabled", "flag_data"} : sets[c].t = "NULL"
             THEN StmtResult(s, {}, "23502")
        ELSE StmtResult((s \ RowsOf(s, k)) \cup rows, rows, "")

\* (variant: a toggle of a key without a row inserts the row, enabled)
ToggleStmtCreatesMissing(s, ts, k) ==
    LET rows == IF RowsOf(s, k) = {}
                THEN {[id |-> 0, flag_key |-> k, description |-> SqlText(""), enabled |-> TRUE,
                       flag_data |-> "{}", created_at |-> ts, updated_at |-> ts]}
                ELSE {update_updated_at_column([r EXCEPT !.enabled = ~@], ts) : r \in RowsOf(s, k)}
    IN  StmtResult((s \ RowsOf(s, k)) \cup rows, rows, "")

\* (variant: the WHERE clause is missing, every row is toggled)
ToggleStmtEveryRow(s, ts, k) ==
    LET rows == {update_updated_at_column([r EXCEPT !.enabled = ~@], ts) : r \in s}
    IN  StmtResult(rows, {r \in rows : r.flag_key = k}, "")

\* (variant: SET enabled = true)
ToggleStmtSetTrue(s, ts, k) ==
    LET rows == {update_updated_at_column([r EXCEPT !.enabled = TRUE], ts) : r \in RowsOf(s, k)}
    IN  StmtResult((s \ RowsOf(s, k)) \cup rows, rows, "")

\* UPDATE feature_flags SET enabled = NOT enabled WHERE flag_key = $1 RETURNING ...
ToggleStmt(s, ts, k) ==
    LET rows == {update_updated_at_column([r EXCEPT !.enabled = ~@], ts) : r \in RowsOf(s, k)}
    IN  StmtResult((s \ RowsOf(s, k)) \cup rows, rows, "")

\* (variant: the row is reported deleted and kept)
DeleteStmtKeepsRow(s, k) == StmtResult(s, RowsOf(s, k), "")

\* (variant: DELETE FROM feature_flags, the WHERE clause missing)
DeleteStmtEveryRow(s, k) == StmtResult({}, RowsOf(s, k), "")

\* DELETE FROM feature_flags WHERE flag_key = $1 RETURNING id
DeleteStmt(s, k) == StmtResult(s \ RowsOf(s, k), RowsOf(s, k), "")

\* --------------------------------------------------- FeatureFlagService
\* node-postgres binds a boolean or a string parameter as its text and
\* null as NULL.
PgParam(v) == IF v.t \in {"undefined", "null"} THEN SqlNull ELSE SqlText(v.s)

\* getAllFlags and getEnabledFlags: result.rows.
getAllFlags(s) == SelectAll(s)

getEnabledFlags(s) == SelectEnabled(s)

\* searchFlags: the parameter is `%${searchTerm}%`.
searchFlags(s, searchTerm) == SelectILike(s, <<"%">> \o Chars(searchTerm) \o <<"%">>)

\* getFlagByKey: result.rows[0] || null.
getFlagByKey(s, flagKey) == SelectByKey(s, flagKey)

\* (variant: the description is bound as given, with no default)
createFlagNoDescriptionDefault(s, id, ts, data) ==
    InsertStmt(s, id, ts, data.flag_key,
               PgParam(data.description),
               PgParam(JsNullish(data.enabled, JsBool(FALSE))),
               SqlText(JSONStringify(JsOr(data.flag_data, JsObj("{}")))))

\* createFlag: values = [flag_key, description || '', enabled ?? false,
\* JSON.stringify(flag_data || {})].
createFlag(s, id, ts, data) ==
    InsertStmt(s, id, ts, data.flag_key,
               PgParam(JsOr(data.description, JsStr(""))),
               PgParam(JsNullish(data.enabled, JsBool(FALSE))),
               SqlText(JSONStringify(JsOr(data.flag_data, JsObj("{}")))))

\* (variant: every column is assigned, an absent field as NULL)
UpdateColumnsEvery(data) == {"description", "enabled", "flag_data"}

\* (variant: a field is taken when it is truthy)
UpdateColumnsTruthy(data) ==
    {c \in {"description", "enabled", "flag_data"} : ~Falsy(data[c])}

\* updateFlag: the columns whose field is !== undefined, each with its value.
UpdateColumns(data) ==
    {c \in {"description", "enabled", "flag_data"} : data[c] # Undefined}

UpdateSets(data) ==
    [c \in UpdateColumns(data) |->
        IF c = "flag_data" THEN SqlText(JSONStringify(data[c])) ELSE PgParam(data[c])]

\* (variant: the row is read back with getFlagByKey after the UPDATE)
updateFlagReadsBack(s, ts, flagKey, data) ==
    IF UpdateColumns(data) = {} THEN getFlagByKey(s, flagKey)
    ELSE LET res == UpdateStmt(s, ts, flagKey, UpdateSets(data))
         IN  IF res.err # "" THEN res
             ELSE [getFlagByKey(res.store, flagKey) EXCEPT !.n = res.n + 1]

\* (variant: the UPDATE runs even with no field to update)
updateFlagAlwaysWrites(s, ts, flagKey, data) ==
    UpdateStmt(s, ts, flagKey, UpdateSets(data))

\* updateFlag with updates.length === 0 returns this.getFlagByKey(flagKey);
\* otherwise it runs the UPDATE.
updateFlag(s, ts, flagKey, data) ==
    IF UpdateColumns(data) = {} THEN getFlagByKey(s, flagKey)
    ELSE UpdateStmt(s, ts, flagKey, UpdateSets(data))

\* deleteFlag: rowCount > 0.
deleteFlag(s, flagKey) == DeleteStmt(s, flagKey)

\* toggleFlag: result.rows[0] || null.
toggleFlag(s, ts, flagKey) == ToggleStmt(s, ts, flagKey)

\* ------------------------------------------------------------ errorHandler
\* (variant: the unique violation is not classified)
errorHandlerNoUnique(code) ==
    CASE code = "23503" -> 400
      [] code = "22P02" -> 400
      [] OTHER -> 500

\* (variant: invalid input syntax is not classified)
errorHandlerNoInvalidText(code) ==
    CASE code = "23505" -> 409
      [] code = "23503" -> 400
      [] OTHER -> 500

\* The status the error middleware answers for a failure with the SQLSTATE code.
errorHandler(code) ==
    CASE code = "23505" -> 409
      [] code = "23503" -> 400
      [] code = "22P02" -> 400
      [] OTHER -> 500

\* The envelope handed to res.json: its success field, which of data, error
\* and message it has, and the text of error.  NoJson: no response yet.
NoJson == [success |-> Undefined, data |-> FALSE, error |-> FALSE, message |-> FALSE, text |-> ""]

\* { success: true, data: ... }
DataJson == [success |-> JsBool(TRUE), data |-> TRUE, error |-> FALSE, message |-> FALSE, text |-> ""]

\* (variant: the acknowledgement is the message alone)
MessageJsonBare ==
    [success |-> Undefined, data |-> FALSE, error |-> FALSE, message |-> TRUE, text |-> ""]

\* { success: true, message: ... }
MessageJson ==
    [success |-> JsBool(TRUE), data |-> FALSE, error |-> FALSE, message |-> TRUE, text |-> ""]

\* { success: false, error: ... } of a handler (flag_key is required, not
\* found, already exists) and of the 404 handler.
ErrorJson ==
    [success |-> JsBool(FALSE), data |-> FALSE, error |-> TRUE, message |-> FALSE,
     text |-> "error"]

\* process.env.NODE_ENV: unset, or a mode.
NodeEnvs == {Undefined, JsStr("development"), JsStr("production")}

\* err.message of a failure of the store with the code.
ErrMessage(code) == "message of " \o code

\* (variant: the message of the failure is the error text in every mode)
errorHandlerJsonMessage(code, env) ==
    [ErrorJson EXCEPT !.text =
        CASE code = "23505" -> "A resource with this key already exists"
          [] code = "23503" -> "Invalid reference to related resource"
          [] code = "22P02" -> "Invalid JSON format"
          [] OTHER -> ErrMessage(code)]

\* The envelope the error middleware answers: a fixed text for a classified
\* code, else err.message in development and 'Internal server error' otherwise.
errorHandlerJson(code, env) ==
    [ErrorJson EXCEPT !.text =
        CASE code = "23505" -> "A resource with this key already exists"
          [] code = "23503" -> "Invalid reference to related resource"
          [] code = "22P02" -> "Invalid JSON format"
          [] OTHER -> IF env = JsStr("development") THEN ErrMessage(code)
                      ELSE "Internal server error"]

\* NODE_ENV is read by errorHandler alone: the values to draw for the outcome
\* res of a statement.
EnvRead(res) == IF res.err = "" THEN {Undefined} ELSE NodeEnvs

\* next(error): the response of errorHandler to the failure with the code.
\* nodeEnv records NODE_ENV where the default branch read it.
ErrorResponse(r, code, env) ==
    [r EXCEPT !.pc = "done", !.ts = 0, !.err = code, !.status = errorHandler(code),
              !.nodeEnv = IF errorHandler(code) = 500 THEN env ELSE @,
              !.json = errorHandlerJson(code, env), !.data = {}]

VARIABLES
    store,      \* feature_flags: the set of rows
    nextId,     \* feature_flags_id_seq: the next value of the SERIAL column
    now,        \* the store's clock (CURRENT_TIMESTAMP of the latest statement)
    issued,     \* requests issued so far
    req,        \* per client: the request in flight and its response
    tx          \* per client: its call of db.transaction

vars == <<store, nextId, now, issued, req, tx>>

\* A client with no request yet.  ts is the CURRENT_TIMESTAMP of the request's
\* writing statement; stmts counts the statements the request has run
\* (pool.query); err is the code of the failure handed to next(error), "" if
\* none; data is the result set handed to res.json: empty, or the one row of
\* the response; search is req.query.search and list the array of rows of a
\* list response; json is the envelope of the response.
Idle ==
    [pc |-> "idle", op |-> "none", key |-> Undefined, search |-> Undefined, ts |-> 0,
     stmts |-> 0, err |-> "", nodeEnv |-> Undefined, status |-> 0, json |-> NoJson,
     data |-> {}, list |-> <<>>]

\* A client that has not called db.transaction.  log is the statements issued
\* on the pooled client; checkedOut says the client is out of the pool and
\* released counts client.release(); error is the failure the catch block
\* caught, named by what failed; outcome is how the call ended for its caller,
\* with the result returned or the failure thrown.
NoTransaction ==
    [pc |-> "idle", log |-> <<>>, checkedOut |-> FALSE, released |-> 0, error |-> "",
     outcome |-> "", result |-> "", thrown |-> ""]

Init ==
    /\ store = SampleRows
    /\ nextId = FirstFreeId
    /\ now = 0
    /\ issued = 0
    /\ req = [p \in Clients |-> Idle]
    /\ tx = [p \in Clients |-> NoTransaction]

\* -------------------------------------------------- FeatureFlagController
\* A handler runs from one await to the next in one step; a statement runs
\* atomically in the store, and the handler's continuation is part of that
\* step.  CURRENT_TIMESTAMP is the start of the statement's transaction, which
\* is when the statement is sent.  The fields of req.body are drawn where the
\* handler hands them to the service.
InFlight(p) == req[p].pc \notin {"idle", "done"}

\* A new request takes a client that was answered or, of the clients that had
\* no request yet (they are interchangeable), the first.
CanIssue(p) ==
    /\ ~InFlight(p)
    /\ req[p].pc = "idle" => \A q \in Clients : q < p => req[q].pc # "idle"
    /\ issued < MaxRequests

\* The response: res.status(status).json(json) with the rows of the result.
Respond(r, status, json, rows) ==
    [r EXCEPT !.pc = "done", !.ts = 0, !.status = status, !.json = json,
              !.data = {RowOut(x) : x \in rows}]

\* (variant: the handler does not test for a missing row)
AnswerNoNotFound(r, res, okStatus, env) ==
    IF res.err # "" THEN ErrorResponse(r, res.err, env)
    ELSE Respond(r, okStatus, DataJson, res.rows)

\* The answer to the outcome res of a statement whose row is the response:
\* a failure goes to next(error), no row is 404.
Answer(r, res, okStatus, env) ==
    IF res.err # "" THEN ErrorResponse(r, res.err, env)
    ELSE IF res.rows = {} THEN Respond(r, 404, ErrorJson, {})
    ELSE Respond(r, okStatus, DataJson, res.rows)

\* The response of a list handler: res.json({success: true, data: flags}).
RespondList(r, rows) ==
    [Respond(r, 200, DataJson, {}) EXCEPT !.list = [i \in 1..Len(rows) |-> RowOut(rows[i])]]

\* GET /feature-flags[?search=...]: searchFlags if (search), else getAllFlags.
GetAllFlags(p) ==
    /\ CanIssue(p)
    /\ \E search \in SearchVals :
         LET res == IF Falsy(search) THEN getAllFlags(store) ELSE searchFlags(store, search.s)
             r == [Idle EXCEPT !.op = "list", !.search = search, !.stmts = res.n]
         IN  req' = [req EXCEPT ![p] = RespondList(r, res.rows)]
    /\ issued' = issued + 1
    /\ UNCHANGED <<store, nextId, now, tx>>

\* GET /feature-flags/enabled
GetEnabledFlags(p) ==
    /\ CanIssue(p)
    /\ LET res == getEnabledFlags(store)
           r == [Idle EXCEPT !.op = "enabled", !.stmts = res.n]
       IN  req' = [req EXCEPT ![p] = RespondList(r, res.rows)]
    /\ issued' = issued + 1
    /\ UNCHANGED <<store, nextId, now, tx>>

\* GET /feature-flags/:key
GetFlagByKey(p) ==
    /\ CanIssue(p)
    /\ \E k \in Keys :
         LET res == getFlagByKey(store, k)
             r == [Idle EXCEPT !.op = "get", !.key = JsStr(k), !.stmts = res.n]
         IN  \E env \in EnvRead(res) : req' = [req EXCEPT ![p] = Answer(r, res, 200, env)]
    /\ issued' = issued + 1
    /\ UNCHANGED <<store, nextId, now, tx>>

\* (variant: flag_key is not validated)
CreateStartNoValidation(p) ==
    /\ CanIssue(p)
    /\ \E k \in BodyKeys :
         req' = [req EXCEPT ![p] = [Idle EXCEPT !.op = "create", !.key = k, !.pc = "check"]]
    /\ issued' = issued + 1
    /\ UNCHANGED <<store, nextId, now, tx>>

\* POST /feature-flags, up to the existence check: 400 without flag_key.
CreateStart(p) ==
    /\ CanIssue(p)
    /\ \E k \in BodyKeys :
         LET r == [Idle EXCEPT !.op = "create", !.key = k]
         IN  req' = [req EXCEPT ![p] =
                 IF Falsy(k) THEN Respond(r, 400, ErrorJson, {}) ELSE [r EXCEPT !.pc = "check"]]
    /\ issued' = issued + 1
    /\ UNCHANGED <<store, nextId, now, tx>>

\* POST, the existence check: 409 if getFlagByKey finds a row, else the
\* INSERT is sent.
CreateCheck(p) ==
    /\ req[p].pc = "check"
    /\ LET res == getFlagByKey(store, req[p].key.s)
       IN  IF res.rows # {}
           THEN /\ req' = [req EXCEPT ![p] = Respond([req[p] EXCEPT !.stmts = @ + res.n], 409, ErrorJson, {})]
                /\ now' = now
           ELSE /\ req' = [req EXCEPT ![p] =
                       [req[p] EXCEPT !.pc = "insert", !.ts = now + 1, !.stmts = @ + res.n]]
                /\ now' = now + 1
    /\ UNCHANGED <<store, nextId, issued, tx>>

\* POST, the INSERT with the body b: 201 with the created row, or next(error).
CreateInsertWith(p, b) ==
    /\ req[p].pc = "insert"
    /\ LET data == [flag_key |-> req[p].key.s, description |-> b.description,
                    enabled |-> b.enabled, flag_data |-> b.flag_data]
           res == createFlag(store, nextId, req[p].ts, data)
       IN  /\ store' = res.store
           /\ \E env \in EnvRead(res) :
                 req' = [req EXCEPT ![p] = Answer([req[p] EXCEPT !.stmts = @ + res.n], res, 201, env)]
    /\ nextId' = nextId + 1
    /\ UNCHANGED <<now, issued, tx>>

CreateInsert(p) == \E b \in Bodies : CreateInsertWith(p, b)

\* PUT /feature-flags/:key, the statement is sent: with no field to update
\* the SELECT of getFlagByKey, else the UPDATE.
UpdateStart(p) ==
    /\ CanIssue(p)
    /\ \E k \in Keys, empty \in BOOLEAN :
         LET r == [Idle EXCEPT !.op = "update", !.key = JsStr(k)]
         IN  IF empty
             THEN /\ req' = [req EXCEPT ![p] = [r EXCEPT !.pc = "select"]]
                  /\ now' = now
             ELSE /\ req' = [req EXCEPT ![p] = [r EXCEPT !.pc = "update", !.ts = now + 1]]
                  /\ now' = now + 1
    /\ issued' = issued + 1
    /\ UNCHANGED <<store, nextId, tx>>

\* PUT, the statement runs with the patch b: 200 with the row, 404 without,
\* or next(error).
UpdateExecWith(p, b) ==
    /\ req[p].pc \in {"select", "update"}
    /\ (req[p].pc = "select") = (UpdateColumns(b) = {})
    /\ LET data == [description |-> b.description, enabled |-> b.enabled,
                    flag_data |-> b.flag_data]
           res == updateFlag(store, req[p].ts, req[p].key.s, data)
       IN  /\ store' = res.store
           /\ \E env \in EnvRead(res) :
                 req' = [req EXCEPT ![p] = Answer([req[p] EXCEPT !.stmts = @ + res.n], res, 200, env)]
    /\ UNCHANGED <<nextId, now, issued, tx>>

UpdateExec(p) == \E b \in Bodies : UpdateExecWith(p, b)

\* DELETE /feature-flags/:key: 200 if a row was deleted, else 404.
DeleteFlag(p) ==
    /\ CanIssue(p)
    /\ \E k \in Keys :
         LET res == deleteFlag(store, k)
             r == [Idle EXCEPT !.op = "delete", !.key = JsStr(k), !.stmts = res.n]
         IN  /\ store' = res.store
             /\ req' = [req EXCEPT ![p] =
                     IF res.rows = {} THEN Respond(r, 404, ErrorJson, {})
                     ELSE Respond(r, 200, MessageJson, {})]
    /\ issued' = issued + 1
    /\ UNCHANGED <<nextId, now, tx>>

\* PATCH /feature-flags/:key/toggle, the UPDATE is sent.
ToggleStart(p) ==
    /\ CanIssue(p)
    /\ \E k \in Keys :
         req' = [req EXCEPT ![p] =
                    [Idle EXCEPT !.op = "toggle", !.key = JsStr(k), !.pc = "toggle", !.ts = now + 1]]
    /\ now' = now + 1
    /\ issued' = issued + 1
    /\ UNCHANGED <<store, nextId, tx>>

\* PATCH toggle, the UPDATE runs: 200 with the row, or 404.
ToggleExec(p) ==
    /\ req[p].pc = "toggle"
    /\ LET res == toggleFlag(store, req[p].ts, req[p].key.s)
       IN  /\ store' = res.store
           /\ \E env \in EnvRead(res) :
                 req' = [req EXCEPT ![p] = Answer([req[p] EXCEPT !.stmts = @ + res.n], res, 200, env)]
    /\ UNCHANGED <<nextId, now, issued, tx>>

\* A request under /api/feature-flags that no route matches (POST or PATCH
\* /feature-flags/:key, PUT or DELETE /feature-flags): the 404 handler.
RouteNotFound(p) ==
    /\ CanIssue(p)
    /\ req' = [req EXCEPT ![p] = Respond([Idle EXCEPT !.op = "unrouted"], 404, ErrorJson, {})]
    /\ issued' = issued + 1
    /\ UNCHANGED <<store, nextId, now, tx>>

Next ==
    \E p \in Clients :
        \/ GetAllFlags(p)
        \/ GetEnabledFlags(p)
        \/ GetFlagByKey(p)
        \/ CreateStart(p)
        \/ CreateCheck(p)
        \/ CreateInsert(p)
        \/ UpdateStart(p)
        \/ UpdateExec(p)
        \/ DeleteFlag(p)
        \/ ToggleStart(p)
        \/ ToggleExec(p)
        \/ RouteNotFound(p)

Spec == Init /\ [][Next]_vars

\* The err.code of the failures pool.query can reject with, whatever the
\* statement: unique_violation, foreign_key_violation,
\* invalid_text_representation, not_null_violation,
\* string_data_right_truncation, query_canceled, and a connection failure
\* (a Node error code, no SQLSTATE).
FailureCodes == {"23505", "23503", "22P02", "23502", "22001", "57014", "ECONNREFUSED"}

\* A statement in flight fails in the store: it changes nothing, the handler's
\* catch hands the error to next(error) and errorHandler answers.
StoreFailure(p) ==
    /\ InFlight(p)
    /\ \E code \in FailureCodes, env \in NodeEnvs :
         req' = [req EXCEPT ![p] = ErrorResponse([req[p] EXCEPT !.stmts = @ + 1], code, env)]
    /\ UNCHANGED <<store, nextId, now, issued, tx>>

NextWithFailures == Next \/ \E p \in Clients : StoreFailure(p)

\* The API with a store in which any statement can fail.
SpecWithFailures == Init /\ [][NextWithFailures]_vars

TypeOK ==
    /\ \A r \in store : r.flag_key \in Keys /\ r.enabled \in BOOLEAN
    /\ issued \in 0..MaxRequests

\* ------------------------------------------------------- db.transaction
\* FeatureFlagDatabase.transaction(callback), as archiveFlag and createFlag of
\* the transactional service call it.  Each await is a step; the statement of
\* the step succeeds or fails.
TxInFlight(p) == tx[p].pc \notin {"idle", "done"}

\* client.query(text): the statement is issued on the client.
Issue(t, text) == [t EXCEPT !.log = Append(@, text)]

\* finally { client.release() }, and the call is over.
Finally(t) == [t EXCEPT !.pc = "done", !.checkedOut = FALSE, !.released = @ + 1]

\* catch (error): the failure is kept and ROLLBACK is next.
Catch(t, error) == [t EXCEPT !.pc = "rollback", !.error = error]

\* const client = await this.getClient(): outside the try block, a failure of
\* pool.connect() reaches the caller with no client acquired.
TxGetClient(p) ==
    /\ tx[p].pc = "idle" \/ tx[p].pc = "done"
    /\ tx[p].pc = "idle" => \A q \in Clients : q < p => tx[q].pc # "idle"
    /\ issued < MaxRequests
    /\ \E failed \in BOOLEAN :
         tx' = [tx EXCEPT ![p] =
                   IF failed
                   THEN [NoTransaction EXCEPT !.pc = "done", !.outcome = "thrown",
                                              !.thrown = "connect"]
                   ELSE [NoTransaction EXCEPT !.pc = "begin", !.checkedOut = TRUE]]
    /\ issued' = issued + 1
    /\ UNCHANGED <<store, nextId, now, req>>

\* await client.query('BEGIN')
TxBegin(p) ==
    /\ tx[p].pc = "begin"
    /\ \E failed \in BOOLEAN :
         tx' = [tx EXCEPT ![p] =
                   IF failed THEN Catch(Issue(@, "BEGIN"), "BEGIN")
                   ELSE [Issue(@, "BEGIN") EXCEPT !.pc = "callback"]]
    /\ UNCHANGED <<store, nextId, now, issued, req>>

\* const result = await callback(client): the callback issues its statement
\* and returns, or throws (the statement failed, or no row was found).
TxCallback(p) ==
    /\ tx[p].pc = "callback"
    /\ \E failed \in BOOLEAN :
         tx' = [tx EXCEPT ![p] =
                   IF failed THEN Catch(Issue(@, "callback"), "callback")
                   ELSE [Issue(@, "callback") EXCEPT !.pc = "commit", !.result = "result"]]
    /\ UNCHANGED <<store, nextId, now, issued, req>>

\* await client.query('COMMIT'); return result
TxCommit(p) ==
    /\ tx[p].pc = "commit"
    /\ \E failed \in BOOLEAN :
         tx' = [tx EXCEPT ![p] =
                   IF failed THEN Catch(Issue(@, "COMMIT"), "COMMIT")
                   ELSE Finally([Issue(@, "COMMIT") EXCEPT !.outcome = "returned"])]
    /\ UNCHANGED <<store, nextId, now, issued, req>>

\* (variant: release() follows the rethrow inside the catch block's try, and
\* is skipped when ROLLBACK fails)
RollbackLeaks(t, failed) ==
    IF failed
    THEN [Issue(t, "ROLLBACK") EXCEPT !.pc = "done", !.outcome = "thrown", !.thrown = "ROLLBACK"]
    ELSE Finally([Issue(t, "ROLLBACK") EXCEPT !.outcome = "thrown", !.thrown = t.error])

\* await client.query('ROLLBACK'); throw error: a failure of ROLLBACK leaves
\* the catch block before the throw; finally runs either way.
Rollback(t, failed) ==
    Finally([Issue(t, "ROLLBACK") EXCEPT
                !.outcome = "thrown",
                !.thrown = IF failed THEN "ROLLBACK" ELSE t.error])

TxRollback(p) ==
    /\ tx[p].pc = "rollback"
    /\ \E failed \in BOOLEAN : tx' = [tx EXCEPT ![p] = Rollback(@, failed)]
    /\ UNCHANGED <<store, nextId, now, issued, req>>

NextTransaction ==
    \E p \in Clients :
        \/ TxGetClient(p)
        \/ TxBegin(p)
        \/ TxCallback(p)
        \/ TxCommit(p)
        \/ TxRollback(p)

\* Calls of db.transaction by concurrent clients.
SpecTransaction == Init /\ [][NextTransaction]_vars

\* ------------------------------------------------------------------ claims
\* The keys of the store at the start, and the requests of a behaviour in which
\* every request issued so far still holds its client (none was replaced).
InitialKeys == {r.flag_key : r \in SampleRows}

Done(p) == req[p].pc = "done"

Requests == {p \in Clients : req[p].pc # "idle"}

AllRequestsVisible == Cardinality(Requests) = issued

\* C1: when exactly two requests were issued, both POST /feature-flags with the
\* same flag_key that was not in the store, then in every interleaving neither
\* is answered 500 and, once both are answered, one got 201 and the other 409.
C1_ConcurrentCreateOneWins ==
    \A p, q \in Clients, k \in Keys \ InitialKeys :
        ( /\ issued = 2 /\ p # q
          /\ req[p].op = "create" /\ req[p].key = JsStr(k)
          /\ req[q].op = "create" /\ req[q].key = JsStr(k) )
        => /\ Done(p) => req[p].status \in {201, 409}
           /\ (Done(p) /\ Done(q)) => {req[p].status, req[q].status} = {201, 409}
           /\ Cardinality(RowsOf(store, k)) <= 1

\* C1 witness: both POSTs passed the existence check and ran their INSERT (two
\* values of the id sequence are used); the loser was answered 409.
C1_Witness ==
    \E p, q \in Clients :
        /\ issued = 2 /\ p # q /\ nextId = FirstFreeId + 2
        /\ Done(p) /\ req[p].op = "create" /\ req[p].key = JsStr("beta-ui") /\ req[p].status = 201
        /\ Done(q) /\ req[q].op = "create" /\ req[q].key = JsStr("beta-ui") /\ req[q].status = 409

\* C2: a POST for a key that already has a row is answered 409 and leaves the
\* store exactly as it was (no overwrite); a POST whose INSERT finds no row
\* with the key is answered 201 and adds the one row with that key.
C2_DuplicateCreateIsConflict ==
    [][\A p \in Clients :
          LET k == req[p].key.s IN
          (req[p].pc \in {"check", "insert"} /\ req'[p] # req[p])
          => /\ ((CreateCheck(p) \/ CreateInsert(p)) /\ RowsOf(store, k) # {})
                   => (store' = store /\ Done(p)' /\ req'[p].status = 409)
             /\ (CreateInsert(p) /\ RowsOf(store, k) = {})
                   => /\ req'[p].status = 201
                      /\ Cardinality(RowsOf(store', k)) = 1
                      /\ store' \ RowsOf(store', k) = store
       ]_vars

\* C2 witness: a key was created once (201) and the second POST for it, made
\* afterwards, was refused by the existence check (409); the store holds the
\* row the first POST returned.
C2_Witness ==
    \E p, q \in Clients :
        /\ nextId = FirstFreeId + 1
        /\ Done(p) /\ req[p].op = "create" /\ req[p].key = JsStr("beta-ui") /\ req[p].status = 201
        /\ Done(q) /\ req[q].op = "create" /\ req[q].key = JsStr("beta-ui") /\ req[q].status = 409
        /\ {RowOut(r) : r \in RowsOf(store, "beta-ui")} = req[p].data

\* C3: a PUT that succeeds on an existing flag returns and stores the row in
\* which each of description, enabled and flag_data that the patch carries
\* has the supplied value and each that it does not carry has its prior value.
Patched(b, old, f) == IF b[f] # Undefined THEN b[f] ELSE old[f]

C3_PartialUpdate ==
    [][\A p \in Clients :
          (req[p].op = "update" /\ InFlight(p) /\ req'[p].status = 200)
          => \A b \in Bodies :
             UpdateExecWith(p, b)
             => \E old \in RowsOf(store, req[p].key.s), new \in RowsOf(store', req[p].key.s) :
                /\ req'[p].data = {RowOut(new)}
                /\ RowsOf(store', req[p].key.s) = {new}
                /\ \A f \in {"description", "enabled", "flag_data"} :
                      RowOut(new)[f] = Patched(b, RowOut(old), f)
       ]_vars

\* C3 witness: the sample flag after PUT {enabled: true}: enabled changed,
\* description and flag_data as they were.
C3_Witness ==
    \E p \in Clients :
        /\ Done(p) /\ req[p].op = "update" /\ req[p].status = 200
        /\ \E row \in req[p].data :
              /\ row.flag_key = "a-number-flag" /\ row.updated_at > 0
              /\ row.enabled = JsBool(TRUE)
              /\ row.description = JsStr("Test a number flag")
              /\ row.flag_data = JsObj("{\"value\":42}")

\* C4: a PUT with an empty patch writes nothing: every row, updated_at
\* included, is as before, and the answer is the current row (200) or 404
\* when the key has no row.
C4_EmptyPatchIsNoop ==
    [][\A p \in Clients :
          (req[p].pc = "select" /\ UpdateExecWith(p, NoBody))
          => /\ store' = store
             /\ req'[p].data = {RowOut(r) : r \in RowsOf(store, req[p].key.s)}
             /\ req'[p].status = IF RowsOf(store, req[p].key.s) = {} THEN 404 ELSE 200
       ]_vars

\* C4 witness: of two requests, a toggle wrote the flag and the PUT, with an
\* empty patch (it started no writing statement: the clock was read once),
\* returned the row the toggle left, updated_at included.
C4_Witness ==
    \E p, q \in Clients :
        /\ issued = 2 /\ now = 1 /\ p # q
        /\ Done(q) /\ req[q].op = "toggle" /\ req[q].status = 200
        /\ Done(p) /\ req[p].op = "update" /\ req[p].status = 200
        /\ req[p].data = req[q].data
        /\ \E row \in req[p].data : row.updated_at = 1
        /\ {RowOut(r) : r \in RowsOf(store, req[p].key.s)} = req[p].data

\* C5: every successful write to an existing row (a PUT with a non-empty
\* patch, a toggle) sets updated_at strictly later than it was, and never
\* earlier than created_at.
C5_UpdatedAtStrictlyLater ==
    [][\A p \in Clients :
          ( /\ req[p].pc \in {"update", "toggle"} /\ req'[p].status = 200
            /\ (UpdateExec(p) \/ ToggleExec(p)) )
          => \A old \in RowsOf(store, req[p].key.s), new \in RowsOf(store', req[p].key.s) :
                new.updated_at > old.updated_at /\ new.updated_at >= new.created_at
       ]_vars

\* C6: when every request issued is a toggle of the same existing key, the
\* stored enabled is the initial value after an even number of completed
\* toggles and its negation after an odd number, every completed toggle is
\* answered 200 with one row, and the rows returned alternate: of n completed
\* toggles, the (n+1) div 2 odd-numbered ones returned the negated value.
InitialRow(k) == CHOOSE r \in SampleRows : r.flag_key = k

C6_NoLostToggle ==
    \A k \in InitialKeys :
        (AllRequestsVisible /\ \A p \in Requests : req[p].op = "toggle" /\ req[p].key = JsStr(k))
        => LET done == {p \in Requests : Done(p)}
               odd == Cardinality(done) % 2 = 1
               negated == {p \in done :
                              \E row \in req[p].data : row.enabled = JsBool(~InitialRow(k).enabled)}
           IN  /\ RowsOf(store, k) # {}
               /\ \A r \in RowsOf(store, k) : r.enabled = (InitialRow(k).enabled # odd)
               /\ \A p \in done : req[p].status = 200 /\ Cardinality(req[p].data) = 1
               /\ Cardinality(negated) = (Cardinality(done) + 1) \div 2

\* C6 witness: two toggles overlapped: the one sent first (updated_at 1) ran
\* second and returned the initial value, the one sent second ran first.
C6_Witness ==
    \E p, q \in Clients :
        /\ issued = 2 /\ p # q
        /\ Done(p) /\ req[p].op = "toggle" /\ req[p].key = JsStr("a-number-flag")
        /\ Done(q) /\ req[q].op = "toggle" /\ req[q].key = JsStr("a-number-flag")
        /\ \E row \in req[p].data : row.updated_at = 1 /\ row.enabled = JsBool(FALSE)
        /\ \E row \in req[q].data : row.updated_at = 2 /\ row.enabled = JsBool(TRUE)
        /\ \A r \in RowsOf(store, "a-number-flag") : r.enabled = FALSE

\* C7: when the only two requests are toggles of the same key, both answered:
\* if the key had a row, both are answered 200 and enabled is back at its
\* original value; if it had none, both are answered 404 with no row and the
\* store is as it was (no row was created).
C7_ToggleTwice ==
    \A p, q \in Clients, k \in Keys :
        ( /\ issued = 2 /\ p # q
          /\ Done(p) /\ req[p].op = "toggle" /\ req[p].key = JsStr(k)
          /\ Done(q) /\ req[q].op = "toggle" /\ req[q].key = JsStr(k) )
        => IF k \in InitialKeys
           THEN /\ req[p].status = 200 /\ req[q].status = 200
                /\ RowsOf(store, k) # {}
                /\ \A r \in RowsOf(store, k) : r.enabled = InitialRow(k).enabled
           ELSE /\ req[p].status = 404 /\ req[q].status = 404
                /\ req[p].data = {} /\ req[q].data = {}
                /\ store = SampleRows

\* C7 witness: two toggles of the sample flag one after the other: the first
\* returned enabled = true, the second enabled = false, the original value.
C7_Witness ==
    \E p, q \in Clients :
        /\ issued = 2 /\ p # q
        /\ Done(p) /\ req[p].op = "toggle" /\ Done(q) /\ req[q].op = "toggle"
        /\ \E row \in req[p].data : row.updated_at = 1 /\ row.enabled = JsBool(TRUE)
        /\ \E row \in req[q].data : row.updated_at = 2 /\ row.enabled = JsBool(FALSE)
        /\ \A r \in RowsOf(store, "a-number-flag") : r.enabled = FALSE /\ r.updated_at = 2

\* C8: a toggle that finds the row negates its enabled and changes no other
\* column of it but updated_at (flag_key, description, flag_data, id and
\* created_at stay); every other row is untouched and none is added or removed.
C8_ToggleFrame ==
    [][\A p \in Clients :
          (req[p].pc = "toggle" /\ ToggleExec(p))
          => /\ \A r \in RowsOf(store, req[p].key.s) :
                   \E new \in store' :
                       /\ new = [r EXCEPT !.enabled = ~r.enabled, !.updated_at = new.updated_at]
                       /\ req'[p].data = {RowOut(new)}
             /\ store \ RowsOf(store, req[p].key.s) = store' \ RowsOf(store', req[p].key.s)
             /\ Cardinality(store') = Cardinality(store)
       ]_vars

\* C8 witness: a flag created by a POST (its own description and flag_data)
\* was toggled: the toggle returned it with enabled negated and the rest kept.
C8_Witness ==
    \E p \in Clients :
        /\ Done(p) /\ req[p].op = "toggle" /\ req[p].status = 200
        /\ \E row \in req[p].data :
              /\ row.flag_key = "beta-ui" /\ row.id = FirstFreeId
              /\ row.enabled = JsBool(FALSE) /\ row.description = JsStr("d")
              /\ row.flag_data = JsObj("{\"a\":1}")
              /\ row.updated_at > row.created_at
        /\ {RowOut(r) : r \in RowsOf(store, "beta-ui")} = req[p].data

\* C9: a POST answered 201 returns and stores a row whose description is ''
\* when the body has no description, whose enabled is false when it has no
\* enabled, and whose flag_data is {} when it has no flag_data, each on its own.
C9_CreateDefaults ==
    [][\A p \in Clients :
          (req[p].pc = "insert" /\ req'[p].status = 201)
          => \A b \in Bodies :
             CreateInsertWith(p, b)
             => \E row \in req'[p].data :
                /\ row \in {RowOut(r) : r \in RowsOf(store', req[p].key.s)}
                /\ b.description = Undefined => row.description = JsStr("")
                /\ b.enabled = Undefined => row.enabled = JsBool(FALSE)
                /\ b.flag_data = Undefined => row.flag_data = JsObj("{}")
       ]_vars

\* C9 witness: the row of a POST answered 201 with all three defaults.
C9_Witness ==
    \E p \in Clients :
        /\ Done(p) /\ req[p].op = "create" /\ req[p].status = 201
        /\ \E row \in req[p].data :
              /\ row.flag_key = "beta-ui"
              /\ row.description = JsStr("") /\ row.enabled = JsBool(FALSE)
              /\ row.flag_data = JsObj("{}")
              /\ RowOut(CHOOSE r \in store : r.flag_key = "beta-ui") = row

\* C10: in every reachable state the flag_data of every stored flag, as the
\* API returns it, is not null, and no response carries a null flag_data.
C10_FlagDataNeverNull ==
    /\ \A r \in store : RowOut(r).flag_data # Null
    /\ \A p \in Clients : \A row \in req[p].data : row.flag_data # Null

\* C11: a POST answered 201 and a PUT answered 200 whose body carries a
\* flag_data that is neither absent nor null (false included) store and
\* return exactly that value.
C11_FlagDataVerbatim ==
    [][\A p \in Clients :
          (req[p].pc \in {"insert", "update"} /\ req'[p].status \in {200, 201})
          => \A b \in Bodies :
             ((CreateInsertWith(p, b) \/ UpdateExecWith(p, b)) /\ b.flag_data \notin {Undefined, Null})
             => /\ \A row \in req'[p].data : row.flag_data = b.flag_data
                /\ \A r \in RowsOf(store', req[p].key.s) : RowOut(r).flag_data = b.flag_data
       ]_vars

\* C12: a DELETE leaves no row with its key and is answered 200 if there was
\* one, 404 with the store unchanged if there was none; a GET is answered 404
\* exactly when its key has no row; and a key that has no row gets one only by
\* a POST for that key answered 201.
C12_DeleteThenNotFound ==
    [][\A p \in Clients :
          req'[p] # req[p]
          => LET k == req'[p].key.s IN
             /\ DeleteFlag(p)
                   => /\ RowsOf(store', k) = {}
                      /\ IF RowsOf(store, k) = {}
                         THEN req'[p].status = 404 /\ store' = store
                         ELSE req'[p].status = 200
             /\ GetFlagByKey(p)
                   => req'[p].status = IF RowsOf(store, k) = {} THEN 404 ELSE 200
             /\ \A k2 \in Keys :
                   (RowsOf(store, k2) = {} /\ RowsOf(store', k2) # {})
                   => (req[p].op = "create" /\ k2 = k /\ req'[p].status = 201)
       ]_vars

\* C12 witness: the sample flag was deleted (200) and the GET for it that
\* followed was answered 404; the store has no row with the key.
C12_Witness ==
    \E p, q \in Clients :
        /\ Done(p) /\ req[p].op = "delete" /\ req[p].key = JsStr("a-number-flag") /\ req[p].status = 200
        /\ Done(q) /\ req[q].op = "get" /\ req[q].key = JsStr("a-number-flag") /\ req[q].status = 404
        /\ RowsOf(store, "a-number-flag") = {}

\* C13: a POST without flag_key is answered 400 before any statement, with the
\* store, its sequence and its clock untouched; a POST with a flag_key is
\* answered 409 when the key has a row and 201 with the created row when it
\* has none, and with nothing else.
C13_CreateStatuses ==
    [][\A p \in Clients :
          (req'[p] # req[p] /\ req'[p].op = "create")
          => LET k == req'[p].key.s IN
             IF req'[p].key = Undefined
             THEN /\ Done(p)' /\ req'[p].status = 400 /\ req'[p].stmts = 0
                  /\ req'[p].data = {}
                  /\ UNCHANGED <<store, nextId, now>>
             ELSE Done(p)'
                  => IF RowsOf(store, k) # {}
                     THEN req'[p].status = 409 /\ req'[p].data = {} /\ store' = store
                     ELSE /\ req'[p].status = 201
                          /\ req'[p].data = {RowOut(r) : r \in RowsOf(store', k)}
                          /\ Cardinality(req'[p].data) = 1
       ]_vars

\* C13 witness: after a POST that created beta-ui (201), a POST without
\* flag_key was answered 400 having run no statement; the store holds the
\* sample row and the created one.
C13_Witness ==
    \E p, q \in Clients :
        /\ Done(q) /\ req[q].op = "create" /\ req[q].status = 201
        /\ Done(p) /\ req[p].op = "create" /\ req[p].key = Undefined
        /\ req[p].status = 400 /\ req[p].stmts = 0
        /\ Cardinality(store) = 2 /\ nextId = FirstFreeId + 1

C16_NoPartialSuccess ==
    [][\A p \in Clients :
          ( /\ req'[p] # req[p]
            /\ req'[p].op \in {"create", "update", "toggle", "delete"}
            /\ (InFlight(p)' \/ req'[p].status >= 400) )
          => store' = store
       ]_vars

\* C16 witness: the only request, a PUT for the sample flag, ran its UPDATE,
\* was rejected by NOT NULL (23502, answered 500) and the row is the sample row.
C16_Witness ==
    \E p \in Clients :
        /\ issued = 1 /\ Done(p) /\ req[p].op = "update" /\ req[p].stmts = 1
        /\ req[p].key = JsStr("a-number-flag")
        /\ req[p].err = "23502" /\ req[p].status = 500
        /\ store = SampleRows

Contains(text, term) ==
    \E i \in 0..(Len(text) - Len(term)) :
        \A j \in 1..Len(term) : Lower(text[i + j]) = Lower(term[j])

C18_SearchIsLiteralSubstring ==
    [][\A p \in Clients :
          (req'[p] # req[p] /\ req'[p].op = "list" /\ ~Falsy(req'[p].search))
          => LET l == req'[p].list
                 term == Chars(req'[p].search.s)
                 expected == {r \in store :
                                 \/ Contains(Chars(r.flag_key), term)
                                 \/ r.description.t # "NULL" /\ Contains(Chars(r.description.s), term)}
             IN  /\ Done(p)' /\ req'[p].status = 200
                 /\ {l[i] : i \in 1..Len(l)} = {RowOut(r) : r \in expected}
                 /\ Len(l) = Cardinality(expected)
                 /\ \A i, j \in 1..Len(l) : i < j => Rank(l[i].flag_key) < Rank(l[j].flag_key)
       ]_vars

\* C19: every response has a boolean success: true when the status is 2xx,
\* false and with an error string when it is 4xx or 5xx; no response has
\* another status.
C19_SuccessMatchesStatus ==
    \A p \in Clients :
        Done(p)
        => /\ req[p].json.success \in {JsBool(TRUE), JsBool(FALSE)}
           /\ req[p].status \in (200..299) \cup (400..599)
           /\ req[p].status \in 200..299 => req[p].json.success = JsBool(TRUE)
           /\ req[p].status \in 400..599
                 => (req[p].json.success = JsBool(FALSE) /\ req[p].json.error)

\* C19 witness: a DELETE acknowledged with a message (200, success true) and a
\* PUT the store rejected, answered by errorHandler (500, success false, error).
C19_Witness ==
    \E p, q \in Clients :
        /\ Done(p) /\ req[p].op = "delete" /\ req[p].status = 200
        /\ req[p].json.success = JsBool(TRUE) /\ req[p].json.message
        /\ Done(q) /\ req[q].op = "update" /\ req[q].err = "23502" /\ req[q].status = 500
        /\ req[q].json.success = JsBool(FALSE) /\ req[q].json.error

\* C20: a step of a request for the key k (create, update, toggle, delete)
\* leaves every row whose flag_key is not k as it was: none is changed, removed
\* or added.
C20_OtherKeysUntouched ==
    [][\A p \in Clients :
          (req'[p] # req[p] /\ req'[p].op \in {"create", "update", "toggle", "delete"})
          => {r \in store : r.flag_key # req'[p].key.s} = {r \in store' : r.flag_key # req'[p].key.s}
       ]_vars

\* C20 witness: a flag created by a POST was then changed by a PUT, and the
\* sample flag, a row with another key, is in the store as it was at the start.
C20_Witness ==
    \E p, q \in Clients :
        /\ Done(p) /\ req[p].op = "create" /\ req[p].key = JsStr("beta-ui") /\ req[p].status = 201
        /\ Done(q) /\ req[q].op = "update" /\ req[q].key = JsStr("beta-ui") /\ req[q].status = 200
        /\ \E row \in req[q].data : row.updated_at > row.created_at
        /\ SampleRows \subseteq store /\ Cardinality(store) = 2

\* C21: the operations of the service as calls, to compare the two orders of a
\* pair: a create or an update with one of four bodies, a toggle, a delete, a
\* read.
CallBodies ==
    {NoBody,
     [description |-> JsStr("d"), enabled |-> JsBool(TRUE), flag_data |-> JsObj("{\"a\":1}")],
     [description |-> Undefined, enabled |-> JsBool(FALSE), flag_data |-> Undefined],
     [description |-> Null, enabled |-> Null, flag_data |-> JsBool(FALSE)]}

Calls ==
    [op : {"create", "update"}, b : CallBodies] \cup [op : {"toggle", "delete", "get"}, b : {NoBody}]

Call(s, id, ts, c, k) ==
    CASE c.op = "create" ->
            createFlag(s, id, ts, [flag_key |-> k, description |-> c.b.description,
                                   enabled |-> c.b.enabled, flag_data |-> c.b.flag_data])
      [] c.op = "update" -> updateFlag(s, ts, k, c.b)
      [] c.op = "toggle" -> toggleFlag(s, ts, k)
      [] c.op = "delete" -> deleteFlag(s, k)
      [] c.op = "get" -> getFlagByKey(s, k)

\* c1 on k1 and then c2 on k2, from the current store, sequence and clock: the
\* two outcomes, the second holding the final rows.
InOrder(c1, k1, c2, k2) ==
    LET r1 == Call(store, nextId, now + 1, c1, k1)
        r2 == Call(r1.store, IF c1.op = "create" THEN nextId + 1 ELSE nextId, now + 2, c2, k2)
    IN  <<r1, r2>>

NoTimestamps(rows) == {[r EXCEPT !.created_at = 0, !.updated_at = 0] : r \in rows}

NoTimestampsNoId(rows) == {[r EXCEPT !.created_at = 0, !.updated_at = 0, !.id = 0] : r \in rows}

\* C21 (as stated): in every reachable store two calls on different keys give,
\* in either order, the same outcome each (rows and failure) and the same
\* final rows, timestamps aside, the id included.
C21_DifferentKeysCommute ==
    \A k1, k2 \in Keys, c1, c2 \in Calls :
        k1 # k2
        => LET a == InOrder(c1, k1, c2, k2)
               b == InOrder(c2, k2, c1, k1)
           IN  /\ a[1].err = b[2].err /\ a[2].err = b[1].err
               /\ NoTimestamps(a[1].rows) = NoTimestamps(b[2].rows)
               /\ NoTimestamps(a[2].rows) = NoTimestamps(b[1].rows)
               /\ NoTimestamps(a[2].store) = NoTimestamps(b[2].store)

\* C21 (amended): the same, timestamps and the generated id aside.
C21_DifferentKeysCommuteButId ==
    \A k1, k2 \in Keys, c1, c2 \in Calls :
        k1 # k2
        => LET a == InOrder(c1, k1, c2, k2)
               b == InOrder(c2, k2, c1, k1)
           IN  /\ a[1].err = b[2].err /\ a[2].err = b[1].err
               /\ NoTimestampsNoId(a[1].rows) = NoTimestampsNoId(b[2].rows)
               /\ NoTimestampsNoId(a[2].rows) = NoTimestampsNoId(b[1].rows)
               /\ NoTimestampsNoId(a[2].store) = NoTimestampsNoId(b[2].store)

\* C21 witness: a POST for one key and a toggle of another overlapped (the
\* toggle was sent first and ran after the INSERT); both succeeded and the
\* store holds the row each returned.
C21_Witness ==
    \E p, q \in Clients :
        /\ issued = 2
        /\ Done(p) /\ req[p].op = "create" /\ req[p].key = JsStr("beta-ui") /\ req[p].status = 201
        /\ Done(q) /\ req[q].op = "toggle" /\ req[q].key = JsStr("a-number-flag")
        /\ req[q].status = 200
        /\ \E row \in req[q].data : row.updated_at = 1
        /\ \E row \in req[p].data : row.created_at = 2
        /\ {RowOut(r) : r \in store} = req[p].data \cup req[q].data

\* C22: no step changes the id, the flag_key or the created_at of a row: a row
\* after the step that has the id or the flag_key of a row before it is that
\* row in all three; and a PUT or a toggle, whatever its body, keeps every row.
C22_IdentityIsImmutable ==
    [][/\ \A r \in store, r2 \in store' :
             (r2.id = r.id \/ r2.flag_key = r.flag_key)
             => (r2.id = r.id /\ r2.flag_key = r.flag_key /\ r2.created_at = r.created_at)
       /\ \A p \in Clients :
             (req'[p] # req[p] /\ req'[p].op \in {"update", "toggle"})
             => \A r \in store : \E r2 \in store' : r2.id = r.id
      ]_vars

\* C22 witness: the sample flag after a PUT and a toggle that both wrote it:
\* updated_at moved twice, id, flag_key and created_at are the initial ones.
C22_Witness ==
    \E p, q \in Clients :
        /\ Done(p) /\ req[p].op = "update" /\ req[p].status = 200
        /\ Done(q) /\ req[q].op = "toggle" /\ req[q].status = 200
        /\ \E row \in req[p].data : row.updated_at = 1
        /\ \E r \in store :
              /\ r.updated_at = 2 /\ r.id = InitialRow("a-number-flag").id
              /\ r.flag_key = "a-number-flag" /\ r.created_at = InitialRow("a-number-flag").created_at

\* C23: the 500 response to a failure errorHandler does not classify has the
\* error text 'Internal server error' unless NODE_ENV is 'development', when
\* it has the message of the failure; and the message of a failure is the
\* error text of no response made in another mode or with NODE_ENV unset.
C23_NoDetailOutsideDevelopment ==
    \A p \in Clients :
        Done(p)
        => /\ (req[p].err # "" /\ req[p].status = 500)
                 => req[p].json.text = IF req[p].nodeEnv = JsStr("development")
                                       THEN ErrMessage(req[p].err)
                                       ELSE "Internal server error"
           /\ (\E code \in FailureCodes : req[p].json.text = ErrMessage(code))
                 => req[p].nodeEnv = JsStr("development")

\* C23 witness: the same failure (a lost connection) answered in production
\* with the fixed text and in development with its message.
C23_Witness ==
    \E p, q \in Clients :
        /\ Done(p) /\ req[p].err = "ECONNREFUSED" /\ req[p].nodeEnv = JsStr("production")
        /\ req[p].status = 500 /\ req[p].json.text = "Internal server error"
        /\ Done(q) /\ req[q].err = "ECONNREFUSED" /\ req[q].nodeEnv = JsStr("development")
        /\ req[q].status = 500 /\ req[q].json.text = ErrMessage("ECONNREFUSED")

\* C24: a step of a request runs one statement when it is a call of a method
\* of the service (the step of a GET, a list or a DELETE, and every step of a
\* request in flight) and none otherwise; a call is over in that step, and a
\* statement that fails ends the request, so that no statement follows it.
C24_OneStatementPerCall ==
    [][\A p \in Clients :
          req'[p] # req[p]
          => LET ran == req'[p].stmts - (IF InFlight(p) THEN req[p].stmts ELSE 0)
             IN  /\ ran = IF InFlight(p) \/ req'[p].op \in {"get", "list", "enabled", "delete"}
                          THEN 1 ELSE 0
                 /\ InFlight(p) => (Done(p)' \/ (req[p].pc = "check" /\ req'[p].pc = "insert"))
                 /\ req'[p].err # "" => (Done(p)' /\ ran = 1)
       ]_vars

\* C24 witness: a toggle whose UPDATE was cancelled ran that one statement and
\* was answered 500; a POST ran its two calls, getFlagByKey and createFlag.
C24_Witness ==
    \E p, q \in Clients :
        /\ Done(p) /\ req[p].op = "toggle" /\ req[p].err = "57014" /\ req[p].stmts = 1
        /\ req[p].status = 500
        /\ Done(q) /\ req[q].op = "create" /\ req[q].status = 201 /\ req[q].stmts = 2

\* C25: a call of db.transaction that acquired a client and is over has
\* released it exactly once and it is back in the pool, however the call
\* ended; no call releases more than once, and a client is out of the pool only
\* while its call runs.
C25_ReleasedExactlyOnce ==
    \A p \in Clients :
        /\ tx[p].released <= 1
        /\ tx[p].checkedOut => TxInFlight(p)
        /\ (tx[p].pc = "done" /\ tx[p].log # <<>>) => tx[p].released = 1
        /\ TxInFlight(p) => (tx[p].checkedOut /\ tx[p].released = 0)

\* C25 witness: the callback threw, ROLLBACK failed as well, and the client
\* was released once; the other call committed and released its client once.
C25_Witness ==
    \E p, q \in Clients :
        /\ tx[p].pc = "done" /\ tx[p].error = "callback" /\ tx[p].thrown = "ROLLBACK"
        /\ tx[p].released = 1 /\ ~tx[p].checkedOut
        /\ tx[q].pc = "done" /\ tx[q].outcome = "returned" /\ tx[q].released = 1

\* C26: a call of db.transaction that is over issued COMMIT exactly when BEGIN
\* and the callback succeeded, returned the callback's result when COMMIT
\* succeeded, and after a failure of BEGIN, the callback or COMMIT issued
\* ROLLBACK and threw that failure to its caller.
C26_CommitOrRethrowOriginal ==
    \A p \in Clients :
        (tx[p].pc = "done" /\ tx[p].log # <<>>)
        => LET issuedStmts == {tx[p].log[i] : i \in 1..Len(tx[p].log)}
           IN  /\ ("COMMIT" \in issuedStmts) = (tx[p].error \notin {"BEGIN", "callback"})
               /\ tx[p].error = ""
                     => (tx[p].outcome = "returned" /\ tx[p].result = "result")
               /\ tx[p].error # ""
                     => /\ "ROLLBACK" \in issuedStmts
                        /\ tx[p].outcome = "thrown" /\ tx[p].thrown = tx[p].error

\* C27: a key gets a row only in the step of a POST for it that is answered
\* 201 and loses its row only in the step of a DELETE for it that is answered
\* 200; a PUT or a toggle that runs when its key has no row (a DELETE ran
\* first) is answered 404 and the key still has no row.
StoredKeys(s) == {r.flag_key : r \in s}

C27_RowsEnterAndLeave ==
    [][\A p \in Clients :
          req'[p] # req[p]
          => LET k == req'[p].key.s IN
             /\ StoredKeys(store') \ StoredKeys(store) # {}
                   => /\ req'[p].op = "create" /\ req'[p].status = 201
                      /\ StoredKeys(store') \ StoredKeys(store) = {k}
             /\ StoredKeys(store) \ StoredKeys(store') # {}
                   => /\ req'[p].op = "delete" /\ req'[p].status = 200
                      /\ StoredKeys(store) \ StoredKeys(store') = {k}
             /\ (req'[p].op \in {"update", "toggle"} /\ Done(p)' /\ k \notin StoredKeys(store))
                   => (req'[p].status = 404 /\ k \notin StoredKeys(store'))
       ]_vars

\* C27 witness: a toggle of the sample flag and a DELETE of it: the DELETE ran
\* first (200), the toggle found no row (404), and the key has no row.
C27_Witness ==
    \E p, q \in Clients :
        /\ issued = 2
        /\ Done(p) /\ req[p].op = "delete" /\ req[p].key = JsStr("a-number-flag")
        /\ req[p].status = 200
        /\ Done(q) /\ req[q].op = "toggle" /\ req[q].key = JsStr("a-number-flag")
        /\ req[q].status = 404 /\ req[q].stmts = 1
        /\ store = {}

\* C28: in every reachable store, for every stored key and every patch without
\* enabled, the update and a toggle of the key, in either order of their
\* statements, both succeed and leave one row of the key, with description and
\* flag_data as patched and enabled negated.
C28_UpdateAndToggleCompose ==
    \A k \in StoredKeys(store), b \in DtoBodies :
        b.enabled = Undefined
        => \A first \in {"update", "toggle"} :
              LET u == [op |-> "update", b |-> b]
                  t == [op |-> "toggle", b |-> NoBody]
                  run == IF first = "update" THEN InOrder(u, k, t, k) ELSE InOrder(t, k, u, k)
              IN  /\ run[1].err = "" /\ run[2].err = ""
                  /\ Cardinality(RowsOf(run[2].store, k)) = 1
                  /\ \A old \in RowsOf(store, k), new \in RowsOf(run[2].store, k) :
                        /\ new.enabled = ~old.enabled
                        /\ RowOut(new).description = Patched(b, RowOut(old), "description")
                        /\ RowOut(new).flag_data = Patched(b, RowOut(old), "flag_data")

\* C28 witness: a toggle and a PUT of the sample flag overlapped (the toggle
\* was sent first and ran second); the row has the description of the PUT and
\* enabled negated.
C28_Witness ==
    \E p, q \in Clients :
        /\ issued = 2
        /\ Done(p) /\ req[p].op = "update" /\ req[p].status = 200
        /\ Done(q) /\ req[q].op = "toggle" /\ req[q].status = 200
        /\ \E row \in req[p].data :
              /\ row.updated_at = 2 /\ row.description = JsStr("d")
              /\ row.enabled = JsBool(InitialRow("a-number-flag").enabled)
        /\ \E row \in req[q].data : row.updated_at = 1
        /\ \A r \in store :
              /\ r.updated_at = 1 /\ r.description = SqlText("d")
              /\ r.enabled = ~InitialRow("a-number-flag").enabled

\* C29: in every reachable state the description of every stored flag, as the
\* API returns it, is a string, and so is the description of every row of a
\* response.
C29_DescriptionNeverNull ==
    /\ \A r \in store : RowOut(r).description.t = "string"
    /\ \A p \in Clients :
          /\ \A row \in req[p].data : row.description.t = "string"
          /\ \A i \in 1..Len(req[p].list) : req[p].list[i].description.t = "string"

\* C30: a DELETE answered 200 leaves no row of its key, the existence check of
\* a POST that finds none lets the INSERT follow, and a POST answered 201 adds
\* one row made of its body and the defaults alone, with both timestamps equal
\* and an id that is the next of the sequence, above the id of every row there
\* is or was; the sequence never goes back.
C30_HardDelete ==
    [][/\ nextId' >= nextId
       /\ \A p \in Clients :
             req'[p] # req[p]
             => /\ (DeleteFlag(p) /\ req'[p].status = 200) => RowsOf(store', req'[p].key.s) = {}
                /\ (req[p].pc = "check" /\ RowsOf(store, req[p].key.s) = {})
                      => req'[p].pc = "insert"
                /\ (req[p].pc = "insert" /\ req'[p].status = 201)
                      => \A b \in Bodies :
                         CreateInsertWith(p, b)
                         => \E row \in req'[p].data :
                            /\ row.flag_key = req[p].key.s
                            /\ row.description = JsOr(b.description, JsStr(""))
                            /\ row.enabled = JsNullish(b.enabled, JsBool(FALSE))
                            /\ row.flag_data = JsOr(b.flag_data, JsObj("{}"))
                            /\ row.created_at = row.updated_at
                            /\ row.id = nextId /\ nextId' > nextId
                            /\ \A r \in store \cup SampleRows : r.id < row.id
                            /\ {RowOut(r) : r \in store' \ store} = {row}
      ]_vars

\* C30 witness: the sample flag was deleted and a POST for its key was answered
\* 201: the only row is the new one, with the first free id, the defaults and
\* nothing of the sample row.
C30_Witness ==
    \E p, q \in Clients :
        /\ issued = 2
        /\ Done(p) /\ req[p].op = "delete" /\ req[p].key = JsStr("a-number-flag")
        /\ req[p].status = 200
        /\ Done(q) /\ req[q].op = "create" /\ req[q].key = JsStr("a-number-flag")
        /\ req[q].status = 201
        /\ \E row \in req[q].data :
              /\ row.id = FirstFreeId /\ row.description = JsStr("")
              /\ row.enabled = JsBool(FALSE) /\ row.flag_data = JsObj("{}")
              /\ row.created_at > 0
              /\ {RowOut(r) : r \in store} = {row}

====
